---- MODULE Spec2Model ----
(***************************************************************************)
(* make_cffi.py: the header preprocessing pipeline that builds the cffi    *)
(* declaration source for zstd.                                            *)
(*                                                                         *)
(* Byte strings are modelled as sequences of one-character strings, so     *)
(* that startswith, "in", strip, splitlines and the regular expressions    *)
(* are computed on the characters, as the code computes them.              *)
(***************************************************************************)
EXTENDS Integers, Sequences, FiniteSets

VARIABLES
    op,             \* which function the pure-function specifications applied
    arg,            \* its argument
    ret,            \* its return value
    pc,             \* position of the build process in get_ffi / preprocess
    run,            \* number of build processes started so far
    system_zstd,    \* get_ffi's argument
    fs,             \* header path -> raw bytes of the header file
    marker_output,  \* lines of output.h written by compiler.preprocess
    cpp,            \* behaviour of the external preprocessor
    headers,        \* get_ffi: headers
    idx,            \* get_ffi: position of the for loop over headers
    lines,          \* preprocess: lines
    temp_files,     \* names of the mkstemp files that exist on disk
    input_file,     \* preprocess: input_file (name of the current temp file)
    spawned,        \* headers the preprocessor subprocess was run for, in order
    preprocessed,   \* get_ffi: preprocessed
    sources,        \* get_ffi: sources
    error,          \* the exception that ended the current process, or "none"
    submitted       \* run -> text passed to ffi.cdef by that run

pure_vars == <<op, arg, ret>>
build_vars == <<pc, run, system_zstd, fs, marker_output, cpp, headers, idx,
                lines, temp_files, input_file, spawned, preprocessed, sources,
                error, submitted>>
vars == <<op, arg, ret, pc, run, system_zstd, fs, marker_output, cpp, headers,
          idx, lines, temp_files, input_file, spawned, preprocessed, sources,
          error, submitted>>

----------------------------------------------------------------------------
(* Byte-string literals of the source.                                     *)

INCLUDE_STDDEF ==
    <<"#","i","n","c","l","u","d","e"," ","<","s","t","d","d","e","f",".",
    "h",">">>
INCLUDE_ZSTD_H ==
    <<"#","i","n","c","l","u","d","e"," ","\"","z","s","t","d",".","h",
    "\"">>
DEFINE_GUARD ==
    <<"#","d","e","f","i","n","e"," ","Z","S","T","D","_","S","T","A","T",
    "I","C","_","L","I","N","K","I","N","G","_","O","N","L","Y">>
INCLUDE_LIMITS ==
    <<"#","i","n","c","l","u","d","e"," ","<","l","i","m","i","t","s",".",
    "h",">">>
DEFINE_INT_MAX ==
    <<"#","d","e","f","i","n","e"," ","I","N","T","_","M","A","X"," ","2",
    "1","4","7","4","8","3","6","4","7","\n">>
ZSTDLIB_API ==
    <<"Z","S","T","D","L","I","B","_","A","P","I">>
ZSTDLIB_STATIC_API ==
    <<"Z","S","T","D","L","I","B","_","S","T","A","T","I","C","_","A","P",
    "I">>
ZDICTLIB_STATIC_API ==
    <<"Z","D","I","C","T","L","I","B","_","S","T","A","T","I","C","_","A",
    "P","I">>
VISIBILITY_DEFAULT ==
    <<"_","_","a","t","t","r","i","b","u","t","e","_","_"," ","(","(","v",
    "i","s","i","b","i","l","i","t","y"," ","(","\"","d","e","f","a","u",
    "l","t","\"",")",")",")"," ">>
ATTR_DEPRECATED ==
    <<"_","_","a","t","t","r","i","b","u","t","e","_","_","(","(","d","e",
    "p","r","e","c","a","t","e","d">>
DECLSPEC_DEPRECATED ==
    <<"_","_","d","e","c","l","s","p","e","c","(","d","e","p","r","e","c",
    "a","t","e","d","(">>
ATTR_UNUSED ==
    <<"_","_","a","t","t","r","i","b","u","t","e","_","_","(","(","_","_",
    "u","n","u","s","e","d","_","_",")",")">>
DEFINE_PREFIX ==
    <<"#","d","e","f","i","n","e"," ">>
ELLIPSIS ==
    <<" ",".",".",".">>
NAME_GUARD ==
    <<"Z","S","T","D","_","S","T","A","T","I","C","_","L","I","N","K","I",
    "N","G","_","O","N","L","Y">>
NAME_LIB_VERSION ==
    <<"Z","S","T","D","_","L","I","B","_","V","E","R","S","I","O","N">>
NAME_VERSION_STRING ==
    <<"Z","S","T","D","_","V","E","R","S","I","O","N","_","S","T","R","I",
    "N","G">>
PATH_VENDORED_ZSTD ==
    <<"/","h","e","r","e","/","z","s","t","d","/","z","s","t","d",".","h">>
PATH_VENDORED_ZDICT ==
    <<"/","h","e","r","e","/","z","s","t","d","/","z","d","i","c","t",".",
    "h">>
SUFFIX_ZSTD ==
    <<"/","z","s","t","d",".","h">>
SUFFIX_ZDICT ==
    <<"/","z","d","i","c","t",".","h">>

LF == <<"\n">>
CRLF == <<"\r", "\n">>

\* bytes.strip() with no argument removes ASCII whitespace.
Whitespace == {" ", "\t", "\n", "\r", "\f"}

Digits == {"0", "1", "2", "3", "4", "5", "6", "7", "8", "9"}

\* The character class [a-zA-Z0-9_] of DEFINE.
WordChars ==
    Digits \cup {"_"} \cup
    {"a","b","c","d","e","f","g","h","i","j","k","l","m",
     "n","o","p","q","r","s","t","u","v","w","x","y","z"} \cup
    {"A","B","C","D","E","F","G","H","I","J","K","L","M",
     "N","O","P","Q","R","S","T","U","V","W","X","Y","Z"}

----------------------------------------------------------------------------
(* Python's bytes operations.                                              *)

Min(S) == CHOOSE x \in S : \A y \in S : x <= y
Max(S) == CHOOSE x \in S : \A y \in S : x >= y

StartsWith(s, prefix) ==
    Len(s) >= Len(prefix) /\ SubSeq(s, 1, Len(prefix)) = prefix

EndsWith(s, suffix) ==
    Len(s) >= Len(suffix) /\ SubSeq(s, Len(s) - Len(suffix) + 1, Len(s)) = suffix

\* sub in s
Contains(s, sub) ==
    \E i \in 0..(Len(s) - Len(sub)) : SubSeq(s, i + 1, i + Len(sub)) = sub

\* s[n:]
From(s, n) == SubSeq(s, n + 1, Len(s))

\* s.strip()
Strip(s) ==
    LET keep == {i \in 1..Len(s) : s[i] \notin Whitespace}
    IN  IF keep = {} THEN <<>> ELSE SubSeq(s, Min(keep), Max(keep))

\* b"".join(ss)
RECURSIVE Concat(_)
Concat(ss) == IF ss = <<>> THEN <<>> ELSE Head(ss) \o Concat(Tail(ss))

\* b"\n".join(ss)
RECURSIVE JoinLF(_)
JoinLF(ss) ==
    IF ss = <<>> THEN <<>>
    ELSE IF Len(ss) = 1 THEN ss[1]
    ELSE ss[1] \o LF \o JoinLF(Tail(ss))

\* Iteration over a file opened "rb": each line ends after its "\n" and keeps
\* it; the last line may have none.
RECURSIVE IterLines(_)
IterLines(data) ==
    IF data = <<>> THEN <<>>
    ELSE LET nl == {i \in 1..Len(data) : data[i] = "\n"}
             end == IF nl = {} THEN Len(data) ELSE Min(nl)
         IN  <<SubSeq(data, 1, end)>> \o IterLines(From(data, end))

\* bytes.splitlines(): breaks at "\n", "\r" and "\r\n", which are not kept; no
\* empty last line for data that ends in a line break.
RECURSIVE SplitLines(_)
SplitLines(data) ==
    IF data = <<>> THEN <<>>
    ELSE LET brk == {i \in 1..Len(data) : data[i] \in {"\n", "\r"}}
         IN  IF brk = {} THEN <<data>>
             ELSE LET i == Min(brk)
                      j == IF data[i] = "\r" /\ i < Len(data) /\ data[i + 1] = "\n"
                           THEN i + 1 ELSE i
                  IN  <<SubSeq(data, 1, i - 1)>> \o SplitLines(From(data, j))

----------------------------------------------------------------------------
(* preprocess(path), lines 57-101: the rewrite of the header's lines.      *)

DroppedPrefixes == {INCLUDE_STDDEF, INCLUDE_ZSTD_H, DEFINE_GUARD}

ExportPrefixes == <<ZSTDLIB_API, ZSTDLIB_STATIC_API, ZDICTLIB_STATIC_API>>

\* The loop with a slip: the character after the prefix is removed with it.
RECURSIVE StripPrefixesAndSpace(_, _)
StripPrefixesAndSpace(line, prefixes) ==
    IF prefixes = <<>> THEN line
    ELSE StripPrefixesAndSpace(IF StartsWith(line, Head(prefixes))
                               THEN From(line, Len(Head(prefixes)) + 1)
                               ELSE line,
                               Tail(prefixes))

\* The for loop over the prefixes: every prefix is tried in turn on the line
\* as the earlier ones left it (the loop has no break).
RECURSIVE StripPrefixes(_, _)
StripPrefixes(line, prefixes) ==
    IF prefixes = <<>> THEN line
    ELSE StripPrefixes(IF StartsWith(line, Head(prefixes))
                       THEN From(line, Len(Head(prefixes)))
                       ELSE line,
                       Tail(prefixes))

\* One pass of the loop body: what is appended to lines for the line read.
RewriteLine(line) ==
    IF \E p \in DroppedPrefixes : StartsWith(line, p)
    THEN <<>>
    ELSE LET l == IF StartsWith(line, INCLUDE_LIMITS) THEN DEFINE_INT_MAX ELSE line
         IN  <<StripPrefixes(l, ExportPrefixes)>>

RECURSIVE RewriteLines(_)
RewriteLines(ls) ==
    IF ls = <<>> THEN <<>>
    ELSE RewriteLine(Head(ls)) \o RewriteLines(Tail(ls))

\* lines, as it stands at the mkstemp call, for a header with the given bytes.
Rewritten(data) == RewriteLines(IterLines(data))

----------------------------------------------------------------------------
(* normalize_output(output), lines 129-145.                                *)

\* Lines 133-134 with the slice one character short: the wrapper's last
\* character, a space, stays on the line.
StripVisibilityShort(line) ==
    IF StartsWith(line, VISIBILITY_DEFAULT)
    THEN From(line, Len(VISIBILITY_DEFAULT) - 1)
    ELSE line

\* Lines 133-134.
StripVisibility(line) ==
    IF StartsWith(line, VISIBILITY_DEFAULT)
    THEN From(line, Len(VISIBILITY_DEFAULT))
    ELSE line

NormalizeLine(line) ==
    LET l == StripVisibility(line)
    IN  IF StartsWith(l, ATTR_DEPRECATED) THEN <<>>
        ELSE IF Contains(l, DECLSPEC_DEPRECATED) THEN <<>>
        ELSE IF StartsWith(l, ATTR_UNUSED) THEN <<>>
        ELSE <<l>>

RECURSIVE NormalizeLines(_)
NormalizeLines(ls) ==
    IF ls = <<>> THEN <<>>
    ELSE NormalizeLine(Head(ls)) \o NormalizeLines(Tail(ls))

normalize_output(output) == JoinLF(NormalizeLines(SplitLines(output)))

----------------------------------------------------------------------------
(* Inputs of the pure-function specifications.                             *)

MaxHeaderLines == 2
MaxOutputLines == 2

SeqsUpTo(S, n) == UNION {[1..k -> S] : k \in 0..n}

DECL_F ==
    <<"i","n","t"," ","f","(","v","o","i","d",")",";">>
DEPRECATED_TAIL ==
    <<"(","\"","x","\"",")",")",")"," ","i","n","t"," ","g","(","v","o","i",
    "d",")",";">>
DECLSPEC_TAIL ==
    <<"\"","x","\"",")",")"," ","i","n","t"," ","g","(","v","o","i","d",")",
    ";">>
DEFINE_FOO_1 ==
    <<"#","d","e","f","i","n","e"," ","F","O","O"," ","1">>

\* Header lines that meet every rewrite rule, one that meets none, and one
\* with two export tokens in a row.
HeaderLineSet ==
    {INCLUDE_STDDEF \o LF,
     INCLUDE_ZSTD_H \o LF,
     DEFINE_GUARD \o LF,
     INCLUDE_LIMITS \o LF,
     ZSTDLIB_API \o <<" ">> \o DECL_F \o LF,
     ZSTDLIB_STATIC_API \o <<" ">> \o DECL_F \o LF,
     ZDICTLIB_STATIC_API \o <<" ">> \o DECL_F \o LF,
     ZSTDLIB_API \o ZSTDLIB_STATIC_API \o <<" ">> \o DECL_F \o LF,
     DECL_F \o LF,
     DEFINE_FOO_1 \o LF}

RewriteInputs == {Concat(ls) : ls \in SeqsUpTo(HeaderLineSet, MaxHeaderLines)}

\* Preprocessor output lines: plain, wrapped once and twice, each marker at
\* the start of the line, the declspec marker after a space, a wrapped
\* deprecated declaration, and an empty line.
OutputLineSet ==
    {DECL_F,
     VISIBILITY_DEFAULT \o DECL_F,
     VISIBILITY_DEFAULT \o VISIBILITY_DEFAULT \o DECL_F,
     ATTR_DEPRECATED \o DEPRECATED_TAIL,
     DECLSPEC_DEPRECATED \o DECLSPEC_TAIL,
     <<" ">> \o DECLSPEC_DEPRECATED \o DECLSPEC_TAIL,
     ATTR_UNUSED \o <<" ">> \o DECL_F,
     VISIBILITY_DEFAULT \o ATTR_DEPRECATED \o DEPRECATED_TAIL,
     <<>>}

RECURSIVE JoinWith(_, _)
JoinWith(eol, ss) ==
    IF ss = <<>> THEN <<>> ELSE Head(ss) \o eol \o JoinWith(eol, Tail(ss))

\* Streams whose lines end in "\n" or in "\r\n", the last one with or without
\* its line break.
OutputStreams ==
    LET seqs == SeqsUpTo(OutputLineSet, MaxOutputLines)
    IN  {JoinWith(eol, ls) : eol \in {LF, CRLF}, ls \in seqs}
        \cup {JoinLF(ls) : ls \in seqs}

BuildOff ==
    /\ pc = "off"
    /\ run = 0
    /\ system_zstd = FALSE
    /\ fs = <<>>
    /\ marker_output = <<>>
    /\ cpp = "none"
    /\ headers = <<>>
    /\ idx = 0
    /\ lines = <<>>
    /\ temp_files = {}
    /\ input_file = <<>>
    /\ spawned = <<>>
    /\ preprocessed = <<>>
    /\ sources = <<>>
    /\ error = "none"
    /\ submitted = <<>>

----------------------------------------------------------------------------
(* SpecRewrite: the rewrite loop of preprocess applied to a header.        *)

InitRewrite ==
    /\ op = "none"
    /\ arg \in RewriteInputs
    /\ ret = <<>>
    /\ BuildOff

\* Lines 57-104: read the header, rewrite its lines, and join them into the
\* bytes that are written to the temporary file.
RewriteHeader ==
    /\ op = "none"
    /\ op' = "rewrite"
    /\ ret' = Concat(Rewritten(arg))
    /\ UNCHANGED <<arg, build_vars>>

SpecRewrite == InitRewrite /\ [][RewriteHeader]_vars

----------------------------------------------------------------------------
(* SpecNormalize: normalize_output applied to a preprocessor output.       *)

InitNormalize ==
    /\ op = "none"
    /\ arg \in OutputStreams
    /\ ret = <<>>
    /\ BuildOff

NormalizeOutput ==
    /\ op = "none"
    /\ op' = "normalize_output"
    /\ ret' = normalize_output(arg)
    /\ UNCHANGED <<arg, build_vars>>

SpecNormalize == InitNormalize /\ [][NormalizeOutput]_vars

----------------------------------------------------------------------------
(* C10 *)

\* The rewrite the claim describes: the first rule that matches is the only
\* one applied, and the strip rule removes one export token.
ClaimedRewriteLine(line) ==
    IF \E p \in DroppedPrefixes : StartsWith(line, p) THEN <<>>
    ELSE IF StartsWith(line, INCLUDE_LIMITS) THEN <<DEFINE_INT_MAX>>
    ELSE IF \E i \in 1..Len(ExportPrefixes) : StartsWith(line, ExportPrefixes[i])
    THEN LET i == CHOOSE k \in 1..Len(ExportPrefixes) :
                      StartsWith(line, ExportPrefixes[k])
         IN  <<From(line, Len(ExportPrefixes[i]))>>
    ELSE <<line>>

RECURSIVE ClaimedRewriteLines(_)
ClaimedRewriteLines(ls) ==
    IF ls = <<>> THEN <<>>
    ELSE ClaimedRewriteLine(Head(ls)) \o ClaimedRewriteLines(Tail(ls))

\* C10: every header line is dropped, or replaced by the INT_MAX definition,
\* or loses exactly one leading export token, or is written unchanged; the
\* written lines keep the order of the header.
C10_OneRulePerLine ==
    op = "rewrite" => ret = Concat(ClaimedRewriteLines(IterLines(arg)))

----------------------------------------------------------------------------
(* C4 *)

\* C4: no line of the text normalize_output returns begins with a
\* deprecation marker, the unused-attribute marker or the visibility-default
\* wrapper.
C4_NoMarkerAtLineStart ==
    op = "normalize_output" =>
        \A i \in 1..Len(SplitLines(ret)) :
            LET line == SplitLines(ret)[i]
            IN  /\ ~StartsWith(line, ATTR_DEPRECATED)
                /\ ~StartsWith(line, DECLSPEC_DEPRECATED)
                /\ ~StartsWith(line, ATTR_UNUSED)
                /\ ~StartsWith(line, VISIBILITY_DEFAULT)

----------------------------------------------------------------------------
(* C9 *)

\* a is a subsequence of b: the elements of a occur in b in the same order.
RECURSIVE IsSubsequence(_, _)
IsSubsequence(a, b) ==
    IF a = <<>> THEN TRUE
    ELSE IF b = <<>> THEN FALSE
    ELSE IF Head(a) = Head(b) THEN IsSubsequence(Tail(a), Tail(b))
    ELSE IsSubsequence(a, Tail(b))

\* An input line with one leading visibility-default wrapper removed.
Unwrapped(line) ==
    IF StartsWith(line, VISIBILITY_DEFAULT)
    THEN SubSeq(line, Len(VISIBILITY_DEFAULT) + 1, Len(line))
    ELSE line

BeginsWithMarker(line) ==
    \/ StartsWith(line, VISIBILITY_DEFAULT)
    \/ StartsWith(line, ATTR_DEPRECATED)
    \/ StartsWith(line, DECLSPEC_DEPRECATED)
    \/ StartsWith(line, ATTR_UNUSED)

\* The lines normalize_output drops or changes: those that begin with the
\* wrapper, the GCC deprecation marker or the unused marker, and those that
\* hold the MSVC deprecation marker anywhere.
Matches(line) ==
    \/ StartsWith(line, VISIBILITY_DEFAULT)
    \/ StartsWith(line, ATTR_DEPRECATED)
    \/ Contains(line, DECLSPEC_DEPRECATED)
    \/ StartsWith(line, ATTR_UNUSED)

OutputIsSubsequence ==
    LET inl == SplitLines(arg)
        outl == SplitLines(ret)
    IN  /\ IsSubsequence(outl, [i \in 1..Len(inl) |-> Unwrapped(inl[i])])
        /\ Len(outl) <= Len(inl)

\* C9 as stated: every (non-empty) input line that does not begin with the
\* wrapper, a deprecation marker or the unused marker is a line of the
\* output, and the output lines are a subsequence of the unwrapped input
\* lines.
C9_OnlyLinesBeginningWithMarkerChange ==
    op = "normalize_output" =>
        /\ \A i \in 1..Len(SplitLines(arg)) :
               LET line == SplitLines(arg)[i]
               IN  (line # <<>> /\ ~BeginsWithMarker(line)) =>
                       \E j \in 1..Len(SplitLines(ret)) : SplitLines(ret)[j] = line
        /\ OutputIsSubsequence

\* C9 amended: a line is also dropped when the MSVC deprecation marker
\* occurs in it after its start; every other non-empty line that begins with
\* none of the markers is a line of the output, and the output lines are a
\* subsequence of the unwrapped input lines.
C9_OnlyMatchingLinesChange ==
    op = "normalize_output" =>
        /\ \A i \in 1..Len(SplitLines(arg)) :
               LET line == SplitLines(arg)[i]
               IN  (line # <<>> /\ ~Matches(line)) =>
                       \E j \in 1..Len(SplitLines(ret)) : SplitLines(ret)[j] = line
        /\ OutputIsSubsequence

\* A stream with a plain line that is kept, a wrapped line that is kept
\* without its wrapper, and a line dropped for a marker after its start.
C9_Witness ==
    /\ op = "normalize_output"
    /\ \E i \in 1..Len(SplitLines(arg)) :
           /\ Contains(SplitLines(arg)[i], DECLSPEC_DEPRECATED)
           /\ ~BeginsWithMarker(SplitLines(arg)[i])
    /\ \E i \in 1..Len(SplitLines(arg)) :
           /\ StartsWith(SplitLines(arg)[i], VISIBILITY_DEFAULT)
           /\ \E j \in 1..Len(SplitLines(ret)) :
                  SplitLines(ret)[j] = Unwrapped(SplitLines(arg)[i])
    /\ Len(SplitLines(ret)) < Len(SplitLines(arg))

----------------------------------------------------------------------------
(* get_ffi, lines 166-180: locating the headers in system mode.            *)

PATH_SYSTEM_ZSTD ==
    <<"/","u","s","r","/","i","n","c","l","u","d","e","/","z","s","t","d",
    ".","h">>
PATH_SYSTEM_ZDICT ==
    <<"/","u","s","r","/","i","n","c","l","u","d","e","/","z","d","i","c",
    "t",".","h">>

\* Length of the longest prefix of s[from..] whose characters are in chars.
RECURSIVE RunLength(_, _, _)
RunLength(s, from, chars) ==
    IF from <= Len(s) /\ s[from] \in chars
    THEN 1 + RunLength(s, from + 1, chars)
    ELSE 0

\* include_re.match(line), include_re = ^# \d+ "([^"]+/(?:zstd|zdict)\.h)":
\* <<group(1)>> for a match, <<>> for None. The closing quote is the first
\* quote after the opening one, since [^"]+ crosses none.
IncludeMatch(line) ==
    LET n == RunLength(line, 3, Digits)
        open == 3 + n + 1
        quotes == {i \in (open + 1)..Len(line) : line[i] = "\""}
        path == SubSeq(line, open + 1, Min(quotes) - 1)
    IN  IF /\ StartsWith(line, <<"#", " ">>)
           /\ n >= 1
           /\ Len(line) >= open
           /\ line[open - 1] = " "
           /\ line[open] = "\""
           /\ quotes # {}
           /\ \/ EndsWith(path, SUFFIX_ZSTD) /\ Len(path) > Len(SUFFIX_ZSTD)
              \/ EndsWith(path, SUFFIX_ZDICT) /\ Len(path) > Len(SUFFIX_ZDICT)
        THEN <<path>>
        ELSE <<>>

\* The set comprehension of lines 177-180.
Located(output_lines) ==
    {IncludeMatch(output_lines[i])[1] :
        i \in {k \in 1..Len(output_lines) : IncludeMatch(output_lines[k]) # <<>>}}

\* list(S) for a set S of str: the elements in the set's iteration order,
\* which depends on the process's string hash seed; any order can come out.
ListOfSet(S) ==
    {f \in [1..Cardinality(S) -> S] : \A i, j \in 1..Cardinality(S) : f[i] = f[j] => i = j}

VendoredHeaders == <<PATH_VENDORED_ZSTD, PATH_VENDORED_ZDICT>>

----------------------------------------------------------------------------
(* The external preprocessor run by preprocess, lines 116-120.             *)

\* What the preprocessor prints for an input file: "strip" removes the
\* directive lines and passes the others through; "blank" leaves an empty
\* line where a directive was.
RECURSIVE CppLines(_, _)
CppLines(kind, ls) ==
    IF ls = <<>> THEN <<>>
    ELSE (IF StartsWith(Head(ls), <<"#">>)
          THEN (IF kind = "blank" THEN <<LF>> ELSE <<>>)
          ELSE <<Head(ls)>>) \o CppLines(kind, Tail(ls))

CppOutput(kind, data) == Concat(CppLines(kind, IterLines(data)))

CppKinds == {"strip", "blank"}

\* process.poll() after communicate(): 0, an exit code, or minus the number
\* of the signal that ended the process.
ExitStatuses == {0, 1, -9}

\* if ret > 0: a process ended by a signal passes.
ExitIsPositive(status) == status > 0

\* if ret:
ExitIsError(status) == status # 0

----------------------------------------------------------------------------
(* get_ffi, lines 204-235: macro placeholders and the assembly.            *)

\* DEFINE.match(line), DEFINE = ^\#define ([a-zA-Z0-9_]+) : <<group(0),
\* group(1)>> for a match, <<>> for None.
DefineMatch(line) ==
    LET n == RunLength(line, Len(DEFINE_PREFIX) + 1, WordChars)
        end == Len(DEFINE_PREFIX) + n + 1
    IN  IF /\ StartsWith(line, DEFINE_PREFIX)
           /\ n >= 1
           /\ Len(line) >= end
           /\ line[end] = " "
        THEN <<SubSeq(line, 1, end), SubSeq(line, Len(DEFINE_PREFIX) + 1, end - 1)>>
        ELSE <<>>

\* Lines 222-227 without the denylist.
IsGuard(name) == name = NAME_GUARD

\* Lines 222-227: the names no placeholder is written for.
IsSkipped(name) ==
    \/ name = NAME_GUARD
    \/ name \in {NAME_LIB_VERSION, NAME_VERSION_STRING}

\* Lines 216-231 for one line of the header: what is appended to sources.
PlaceholderFor(raw) ==
    LET line == Strip(raw)
        m == DefineMatch(line)
    IN  IF m = <<>> THEN <<>>
        ELSE IF IsSkipped(m[2]) THEN <<>>
        ELSE <<m[1] \o ELLIPSIS>>

RECURSIVE PlaceholdersOf(_)
PlaceholdersOf(ls) ==
    IF ls = <<>> THEN <<>>
    ELSE PlaceholderFor(Head(ls)) \o PlaceholdersOf(Tail(ls))

Placeholders(data) == PlaceholdersOf(IterLines(data))

\* if line: a line of spaces passes.
IsNonEmpty(line) == line # <<>>

\* Line 234: if line.strip()
IsKept(line) == Strip(line) # <<>>

\* Lines 233-235: the text passed to ffi.cdef.
CdefSource(srcs) ==
    LET cdeflines == SelectSeq(SplitLines(JoinLF(srcs)), IsKept)
    IN  JoinLF(cdeflines)

----------------------------------------------------------------------------
(* Spec: builds of the declaration source (python make_cffi.py).           *)

MaxRuns == 2
MaxMarkerLines == 2
PoolSize == 3

DEFINE_FOO_2 ==
    <<"#","d","e","f","i","n","e"," ","F","O","O"," ","2">>
DEFINE_BAR_FUNC ==
    <<"#","d","e","f","i","n","e"," ","B","A","R","(","x",")"," ","x">>
DEFINE_GUARD_LINE ==
    <<"#","d","e","f","i","n","e"," ","Z","S","T","D","_","S","T","A","T",
    "I","C","_","L","I","N","K","I","N","G","_","O","N","L","Y"," ","1">>
DEFINE_LIB_VERSION ==
    <<"#","d","e","f","i","n","e"," ","Z","S","T","D","_","L","I","B","_",
    "V","E","R","S","I","O","N"," ","1",".","5",".","5">>
DEFINE_VERSION_STRING ==
    <<"#","d","e","f","i","n","e"," ","Z","S","T","D","_","V","E","R","S",
    "I","O","N","_","S","T","R","I","N","G"," ","\"","1",".","5",".","5",
    "\"">>
DECL_G ==
    <<"i","n","t"," ","g","(","v","o","i","d",")",";">>
MARKER_ZSTD ==
    <<"#"," ","1"," ","\"","/","u","s","r","/","i","n","c","l","u","d","e",
    "/","z","s","t","d",".","h","\""," ","1"," ","3"," ","4">>
MARKER_ZDICT ==
    <<"#"," ","1"," ","\"","/","u","s","r","/","i","n","c","l","u","d","e",
    "/","z","d","i","c","t",".","h","\""," ","1"," ","3"," ","4">>
MARKER_INPUT ==
    <<"#"," ","1"," ","\"","i","n","p","u","t",".","h","\"">>
MARKER_BARE ==
    <<"#"," ","1"," ","\"","z","s","t","d",".","h","\"">>

\* The header of the end-to-end scenario.
ScenarioHeader ==
    Concat(<<DEFINE_FOO_1 \o LF,
             INCLUDE_STDDEF \o LF,
             ZSTDLIB_API \o <<" ">> \o DECL_F \o LF>>)

\* A header that defines FOO twice and holds the guard, a denylisted macro,
\* an empty line and a line of spaces.
MacroHeader ==
    Concat(<<DEFINE_FOO_1 \o LF,
             LF,
             DEFINE_LIB_VERSION \o LF,
             DEFINE_GUARD_LINE \o LF,
             <<" ", " ">> \o LF,
             DEFINE_FOO_2 \o LF>>)

\* A header with a declaration, the other denylisted macro and a
\* function-like macro.
PlainHeader ==
    Concat(<<DECL_G \o LF,
             DEFINE_VERSION_STRING \o LF,
             DEFINE_BAR_FUNC \o LF>>)

\* A header with the limits.h include and a form feed on a line of its own.
LimitsHeader ==
    Concat(<<INCLUDE_LIMITS \o LF,
             <<"\f">> \o LF,
             ZDICTLIB_STATIC_API \o <<" ">> \o DECL_G \o CRLF>>)

Pool == <<ScenarioHeader, MacroHeader, PlainHeader, LimitsHeader>>

HeaderPool == {Pool[i] : i \in {k \in 1..Len(Pool) : k <= PoolSize}}

\* Line markers for the two headers, for the scratch file, and for a header
\* named without a directory, which include_re does not match.
MarkerLineSet ==
    {MARKER_ZSTD \o LF, MARKER_ZDICT \o LF, MARKER_INPUT \o LF, MARKER_BARE \o LF}

HeaderPaths(system) ==
    IF system THEN {PATH_SYSTEM_ZSTD, PATH_SYSTEM_ZDICT}
    ELSE {PATH_VENDORED_ZSTD, PATH_VENDORED_ZDICT}

Init ==
    /\ op = "none"
    /\ arg = <<>>
    /\ ret = <<>>
    /\ pc = "start"
    /\ run = 0
    /\ system_zstd \in BOOLEAN
    /\ fs \in [HeaderPaths(system_zstd) -> HeaderPool]
    /\ marker_output \in (IF system_zstd THEN SeqsUpTo(MarkerLineSet, MaxMarkerLines)
                          ELSE {<<>>})
    /\ cpp \in CppKinds
    /\ headers = <<>>
    /\ idx = 0
    /\ lines = <<>>
    /\ temp_files = {}
    /\ input_file = <<>>
    /\ spawned = <<>>
    /\ preprocessed = <<>>
    /\ sources = <<>>
    /\ error = "none"
    /\ submitted = <<>>

\* A build process starts and get_ffi runs up to the loop over the headers.
\* A second build is started after the first has returned.
EnterGetFfi(hs) ==
    /\ pc \in {"start", "returned"}
    /\ run < MaxRuns
    /\ run' = run + 1
    /\ headers' = hs
    /\ idx' = 1
    /\ sources' = <<>>
    /\ lines' = <<>>
    /\ input_file' = <<>>
    /\ spawned' = <<>>
    /\ preprocessed' = <<>>
    /\ error' = "none"
    /\ pc' = "loop"
    /\ UNCHANGED <<pure_vars, system_zstd, fs, marker_output, cpp, temp_files,
                   submitted>>

\* get_ffi(system_zstd=False), lines 149-206.
GetFfiVendored ==
    /\ ~system_zstd
    /\ EnterGetFfi(VendoredHeaders)

\* get_ffi(system_zstd=True), lines 149-206.
GetFfiSystem ==
    /\ system_zstd
    /\ \E hs \in ListOfSet(Located(marker_output)) : EnterGetFfi(hs)

\* preprocess(header), lines 57-103: the header is read and rewritten, and
\* the temporary file is created.
Mkstemp ==
    /\ pc = "loop"
    /\ idx <= Len(headers)
    /\ lines' = Rewritten(fs[headers[idx]])
    /\ input_file' = <<run, idx>>
    /\ temp_files' = temp_files \cup {<<run, idx>>}
    /\ pc' = "write"
    /\ UNCHANGED <<pure_vars, run, system_zstd, fs, marker_output, cpp, headers,
                   idx, spawned, preprocessed, sources, error, submitted>>

\* Line 104, os.write returns.
Write ==
    /\ pc = "write"
    /\ pc' = "close"
    /\ UNCHANGED <<pure_vars, run, system_zstd, fs, marker_output, cpp, headers,
                   idx, lines, temp_files, input_file, spawned, preprocessed,
                   sources, error, submitted>>

\* An exception that leaves preprocess and get_ffi: nothing catches it.
Raise(e) ==
    /\ error' = e
    /\ pc' = "raised"

\* Line 104, os.write raises OSError (the disk is full): the statement is
\* outside the try block.
WriteRaises ==
    /\ pc = "write"
    /\ Raise("OSError in os.write")
    /\ UNCHANGED <<pure_vars, run, system_zstd, fs, marker_output, cpp, headers,
                   idx, lines, temp_files, input_file, spawned, preprocessed,
                   sources, submitted>>

\* Line 105, os.close returns.
Close ==
    /\ pc = "close"
    /\ pc' = "spawn"
    /\ UNCHANGED <<pure_vars, run, system_zstd, fs, marker_output, cpp, headers,
                   idx, lines, temp_files, input_file, spawned, preprocessed,
                   sources, error, submitted>>

\* Line 105, os.close raises OSError: the statement is outside the try block.
CloseRaises ==
    /\ pc = "close"
    /\ Raise("OSError in os.close")
    /\ UNCHANGED <<pure_vars, run, system_zstd, fs, marker_output, cpp, headers,
                   idx, lines, temp_files, input_file, spawned, preprocessed,
                   sources, submitted>>

\* Line 126, the finally clause.
Unlink == temp_files' = temp_files \ {input_file}

\* Lines 107-126, subprocess.Popen raises (the executable is missing).
PopenRaises ==
    /\ pc = "spawn"
    /\ Raise("OSError in subprocess.Popen")
    /\ Unlink
    /\ UNCHANGED <<pure_vars, run, system_zstd, fs, marker_output, cpp, headers,
                   idx, lines, input_file, spawned, preprocessed, sources,
                   submitted>>

\* Lines 107-126, the preprocessor runs on the temporary file and exits.
RunPreprocessor ==
    /\ pc = "spawn"
    /\ \E status \in ExitStatuses :
        /\ spawned' = Append(spawned, [header |-> headers[idx], ret |-> status])
        /\ IF ExitIsError(status)
           THEN /\ Raise("preprocessor exited with error")
                /\ UNCHANGED preprocessed
           ELSE /\ preprocessed' = CppOutput(cpp, Concat(lines))
                /\ pc' = "normalize"
                /\ UNCHANGED error
    /\ Unlink
    /\ UNCHANGED <<pure_vars, run, system_zstd, fs, marker_output, cpp, headers,
                   idx, lines, input_file, sources, submitted>>

\* Lines 211-231, the rest of the loop body: the normalized output and then
\* the header's macro placeholders are appended to sources.
AppendSources ==
    /\ pc = "normalize"
    /\ sources' = Append(sources, normalize_output(preprocessed))
                  \o Placeholders(fs[headers[idx]])
    /\ idx' = idx + 1
    /\ pc' = "loop"
    /\ UNCHANGED <<pure_vars, run, system_zstd, fs, marker_output, cpp, headers,
                   lines, temp_files, input_file, spawned, preprocessed, error,
                   submitted>>

\* Lines 233-236, after the loop: the text is assembled and passed to
\* ffi.cdef, and get_ffi returns.
Cdef ==
    /\ pc = "loop"
    /\ idx > Len(headers)
    /\ submitted' = Append(submitted, CdefSource(sources))
    /\ pc' = "returned"
    /\ UNCHANGED <<pure_vars, run, system_zstd, fs, marker_output, cpp, headers,
                   idx, lines, temp_files, input_file, spawned, preprocessed,
                   sources, error>>

Next ==
    \/ GetFfiVendored
    \/ GetFfiSystem
    \/ Mkstemp
    \/ Write
    \/ WriteRaises
    \/ Close
    \/ CloseRaises
    \/ PopenRaises
    \/ RunPreprocessor
    \/ AppendSources
    \/ Cdef

Spec == Init /\ [][Next]_vars

----------------------------------------------------------------------------
(* Claims about the builds.                                                *)

\* The text the last finished build passed to ffi.cdef.
Text == submitted[Len(submitted)]

TextLines == SplitLines(Text)

Returned == pc = "returned" /\ Len(submitted) = run

\* C1: once preprocess has returned or raised, its temporary file does not
\* exist.
C1_TempFileRemoved ==
    pc \notin {"write", "close", "spawn"} => temp_files = {}

\* C2: in system mode with no header located, get_ffi does not call ffi.cdef
\* and does not return.
C2_ZeroHeadersFail ==
    (system_zstd /\ run >= 1 /\ headers = <<>>) =>
        (pc # "returned" /\ submitted = <<>>)

\* C5: every build of the same headers in the same mode with the same
\* preprocessor passes the same text to ffi.cdef.
C5_SameTextEveryRun ==
    \A i, j \in 1..Len(submitted) : submitted[i] = submitted[j]

\* C6: a preprocessor run that exits non-zero (exit code or signal) is the
\* last one of its build and the only one for its header, the build ends
\* with the exception and passes nothing to ffi.cdef; a build that passes a
\* text to ffi.cdef has run the preprocessor once for every header, in
\* order, each time with exit status 0.
C6_NonZeroExitAborts ==
    /\ \A k \in 1..Len(spawned) :
           spawned[k].ret # 0 =>
               /\ k = Len(spawned)
               /\ \A j \in 1..(k - 1) : spawned[j].header # spawned[k].header
               /\ pc = "raised"
               /\ error = "preprocessor exited with error"
               /\ Len(submitted) = run - 1
    /\ Returned =>
           /\ Len(spawned) = Len(headers)
           /\ \A k \in 1..Len(spawned) :
                  spawned[k].header = headers[k] /\ spawned[k].ret = 0

\* The first of two headers fails, once by exit code and once by signal.
C6_Witness ==
    /\ pc = "raised"
    /\ Len(headers) = 2
    /\ Len(spawned) = 1
    /\ spawned[1].ret < 0
    /\ temp_files = {}

\* C7: no line of a text passed to ffi.cdef is empty after trimming.
C7_NoBlankLines ==
    \A r \in 1..Len(submitted) :
        \A i \in 1..Len(SplitLines(submitted[r])) :
            Strip(SplitLines(submitted[r])[i]) # <<>>

\* A build whose joined sources held an empty line and a line of spaces.
C7_Witness ==
    /\ Returned
    /\ Text # <<>>
    /\ \E i \in 1..Len(SplitLines(JoinLF(sources))) :
           SplitLines(JoinLF(sources))[i] = <<>>
    /\ \E i \in 1..Len(SplitLines(JoinLF(sources))) :
           /\ SplitLines(JoinLF(sources))[i] # <<>>
           /\ Strip(SplitLines(JoinLF(sources))[i]) = <<>>

----------------------------------------------------------------------------
(* C3 *)

NAME_FOO ==
    <<"F","O","O">>

MacroNames == {NAME_FOO, NAME_GUARD, NAME_LIB_VERSION, NAME_VERSION_STRING}

NoPlaceholderNames == {NAME_GUARD, NAME_LIB_VERSION, NAME_VERSION_STRING}

\* Number of lines "#define NAME value" of a header.
DefinitionsIn(data, name) ==
    Cardinality({k \in 1..Len(IterLines(data)) :
        StartsWith(Strip(IterLines(data)[k]), DEFINE_PREFIX \o name \o <<" ">>)})

\* Number of such lines in the headers the build processed.
RECURSIVE DefinitionsOf(_, _)
DefinitionsOf(hs, name) ==
    IF hs = <<>> THEN 0
    ELSE DefinitionsIn(fs[Head(hs)], name) + DefinitionsOf(Tail(hs), name)

\* The placeholder line the code writes: group(0) of the match, which ends
\* in a space, and then " ...".
PlaceholderLine(name) == DEFINE_PREFIX \o name \o <<" ", " ", ".", ".", ".">>

\* The forms "NAME ..." can be read as.
PlaceholderForms(name) ==
    {name \o <<" ", ".", ".", ".">>,
     DEFINE_PREFIX \o name \o <<" ", ".", ".", ".">>,
     PlaceholderLine(name)}

\* C3 as stated: the text holds exactly one placeholder line for a macro that
\* a processed header defines, and none for the guard and the denylisted
\* macros.
C3_ExactlyOnePlaceholder ==
    Returned =>
        \A name \in MacroNames :
            DefinitionsOf(headers, name) >= 1 =>
                Cardinality({i \in 1..Len(TextLines) :
                                 TextLines[i] \in PlaceholderForms(name)})
                = (IF name \in NoPlaceholderNames THEN 0 ELSE 1)

\* C3 amended: the text holds one line "#define NAME  ..." for each
\* definition line of NAME in the processed headers, and none for the guard
\* and the denylisted macros.
C3_OnePlaceholderPerDefinition ==
    Returned =>
        \A name \in MacroNames :
            Cardinality({i \in 1..Len(TextLines) :
                             TextLines[i] \in PlaceholderForms(name)})
            = (IF name \in NoPlaceholderNames THEN 0
               ELSE DefinitionsOf(headers, name))
            /\ \A i \in 1..Len(TextLines) :
                   TextLines[i] \in PlaceholderForms(name) =>
                       TextLines[i] = PlaceholderLine(name)

\* A build of two headers that define FOO three times between them and hold
\* the guard and a denylisted macro.
C3_Witness ==
    /\ Returned
    /\ DefinitionsOf(headers, NAME_FOO) = 3
    /\ DefinitionsOf(headers, NAME_GUARD) >= 1
    /\ DefinitionsOf(headers, NAME_LIB_VERSION) >= 1

----------------------------------------------------------------------------
(* C8 *)

FOO_ELLIPSIS ==
    <<"F","O","O"," ",".",".",".">>

ScenarioBuilt ==
    /\ Returned
    /\ cpp = "strip"
    /\ \E i \in 1..Len(headers) : fs[headers[i]] = ScenarioHeader

\* C8 as stated: the text has the line "int f(void);", has no
\* "#include <stddef.h>" and has "FOO ...".
C8_Scenario ==
    ScenarioBuilt =>
        /\ \E i \in 1..Len(TextLines) : TextLines[i] = DECL_F
        /\ ~Contains(Text, INCLUDE_STDDEF)
        /\ Contains(Text, FOO_ELLIPSIS)

\* C8 amended: the text has the line " int f(void);" (the export token is
\* removed, the space after it stays), has no "#include <stddef.h>" and has
\* the line "#define FOO  ...".
C8_ScenarioAsBuilt ==
    ScenarioBuilt =>
        /\ \E i \in 1..Len(TextLines) : TextLines[i] = <<" ">> \o DECL_F
        /\ ~Contains(Text, INCLUDE_STDDEF)
        /\ \E i \in 1..Len(TextLines) : TextLines[i] = PlaceholderLine(NAME_FOO)

C8_Witness == ScenarioBuilt /\ Len(headers) = 2

====
